---- MODULE Spec2Model ----
(***************************************************************************)
(* Model of bot_ipca.py: the SIDRA/IBGE IPCA capture bot.                  *)
(*                                                                         *)
(*   Spec       main() on the fixture path: load_fixture, normalize_ipca   *)
(*              (with its inner parse_period) and save_parquet.            *)
(*   SpecFetch  fetch_json_with_fallback over SIDRA_URLS, one step per     *)
(*              HTTP GET issued by the session of fetch_json.              *)
(*                                                                         *)
(* Python strings are sequences of one-character strings, so that          *)
(* str.isdigit, re.match, str.strip, str.lower, str.replace and float()    *)
(* are computed character by character.                                    *)
(***************************************************************************)
EXTENDS Integers, Sequences, FiniteSets, TLC

(* ---------------------------------------------------------------------- *)
(* Bounds                                                                  *)
(* ---------------------------------------------------------------------- *)
\* largest number of data records after the header in a modelled payload
MaxRecords == 2

(* ---------------------------------------------------------------------- *)
(* Python values                                                           *)
(* ---------------------------------------------------------------------- *)
\* JSON values a record can hold under a key: null/absent, a string, an int
None == [t |-> "none", s |-> <<>>, n |-> 0]
Str(s) == [t |-> "str", s |-> s, n |-> 0]
Num(n) == [t |-> "num", s |-> <<>>, n |-> n]

\* the None of an ano/mes cell (parsed years and months are never negative)
Null == -1

Digits == {"0", "1", "2", "3", "4", "5", "6", "7", "8", "9"}

DigitVal(c) ==
    CASE c = "0" -> 0 [] c = "1" -> 1 [] c = "2" -> 2 [] c = "3" -> 3
      [] c = "4" -> 4 [] c = "5" -> 5 [] c = "6" -> 6 [] c = "7" -> 7
      [] c = "8" -> 8 [] c = "9" -> 9

DigitChar(d) ==
    CASE d = 0 -> "0" [] d = 1 -> "1" [] d = 2 -> "2" [] d = 3 -> "3"
      [] d = 4 -> "4" [] d = 5 -> "5" [] d = 6 -> "6" [] d = 7 -> "7"
      [] d = 8 -> "8" [] d = 9 -> "9"

\* str.isdigit(): non-empty and every character a digit
IsDigit(v) == Len(v) > 0 /\ \A i \in 1..Len(v) : v[i] \in Digits

\* int(v) of a string of decimal digits
RECURSIVE ToInt(_)
ToInt(v) ==
    IF Len(v) = 0 THEN 0
    ELSE 10 * ToInt(SubSeq(v, 1, Len(v) - 1)) + DigitVal(v[Len(v)])

\* str(n) of a non-negative int
RECURSIVE IntToStr(_)
IntToStr(n) ==
    IF n < 10 THEN <<DigitChar(n)>>
    ELSE IntToStr(n \div 10) \o <<DigitChar(n % 10)>>

\* bool(v): None, "" and 0 are falsy
Truthy(v) ==
    CASE v.t = "none" -> FALSE
      [] v.t = "str" -> v.s # <<>>
      [] v.t = "num" -> v.n # 0

\* str(x or ""), as in lines 71 and 80
StrOrEmpty(v) ==
    IF ~Truthy(v) THEN <<>>
    ELSE IF v.t = "str" THEN v.s ELSE IntToStr(v.n)

\* str.lower() on the characters of the model's alphabet
LowerChar(c) ==
    CASE c = "J" -> "j" [] c = "A" -> "a" [] c = "N" -> "n"
      [] c = "F" -> "f" [] c = "E" -> "e" [] c = "V" -> "v"
      [] OTHER -> c

Lower(v) == [i \in 1..Len(v) |-> LowerChar(v[i])]

\* str.strip(): drop leading and trailing whitespace
RECURSIVE LStrip(_)
LStrip(v) ==
    IF Len(v) > 0 /\ v[1] = " " THEN LStrip(Tail(v)) ELSE v

RECURSIVE RStrip(_)
RStrip(v) ==
    IF Len(v) > 0 /\ v[Len(v)] = " " THEN RStrip(SubSeq(v, 1, Len(v) - 1))
    ELSE v

Strip(v) == RStrip(LStrip(v))

\* str.replace(",", ".")
ReplaceComma(v) == [i \in 1..Len(v) |-> IF v[i] = "," THEN "." ELSE v[i]]

(* ---------------------------------------------------------------------- *)
(* Raw payload                                                             *)
(* ---------------------------------------------------------------------- *)
\* an element of a list payload: a mapping with the nine keys the code reads
\* (a missing key is None, as item.get returns), or something that is not a dict
Mapping(d3c, d4c, d5c, d3n, d4n, d5n, d1c, d1n, v) ==
    [isdict |-> TRUE, D3C |-> d3c, D4C |-> d4c, D5C |-> d5c,
     D3N |-> d3n, D4N |-> d4n, D5N |-> d5n, D1C |-> d1c, D1N |-> d1n, V |-> v]

\* a list element that is not a dict (a number, a string, null, a list)
NotAMapping ==
    [isdict |-> FALSE, D3C |-> None, D4C |-> None, D5C |-> None,
     D3N |-> None, D4N |-> None, D5N |-> None, D1C |-> None, D1N |-> None,
     V |-> None]

\* the header record, e.g. {"header": true}: none of the nine keys
HeaderRec == Mapping(None, None, None, None, None, None, None, None, None)

ListPayload(elems) == [kind |-> "list", elems |-> elems]
DictPayload == [kind |-> "dict", elems |-> <<>>]
ScalarPayload == [kind |-> "scalar", elems |-> <<>>]
NoPayload == [kind |-> "unset", elems |-> <<>>]

(* ---------------------------------------------------------------------- *)
(* parse_period                                                            *)
(* ---------------------------------------------------------------------- *)
\* (None, None)
NoPeriod == <<Null, Null>>

\* len(v) == 6 and v.isdigit()  ->  int(v[:4]), int(v[4:6])
IsYYYYMM(v) == Len(v) = 6 /\ IsDigit(v)

\* re.match(r"^(\d{4})[-/.](\d{2})$", v)
IsYearSepMonth(v) ==
    /\ Len(v) = 7
    /\ IsDigit(SubSeq(v, 1, 4))
    /\ v[5] \in {"-", "/", "."}
    /\ IsDigit(SubSeq(v, 6, 7))

\* body of the first loop for one key: the 6-digit test, then the regex
ParseCoded(v) ==
    IF IsYYYYMM(v) THEN <<ToInt(SubSeq(v, 1, 4)), ToInt(SubSeq(v, 5, 6))>>
    ELSE IF IsYearSepMonth(v)
         THEN <<ToInt(SubSeq(v, 1, 4)), ToInt(SubSeq(v, 6, 7))>>
         ELSE NoPeriod

\* mes_pt
MesPt(m) ==
    CASE m = <<"j", "a", "n">> -> 1 [] m = <<"f", "e", "v">> -> 2
      [] m = <<"m", "a", "r">> -> 3 [] m = <<"a", "b", "r">> -> 4
      [] m = <<"m", "a", "i">> -> 5 [] m = <<"j", "u", "n">> -> 6
      [] m = <<"j", "u", "l">> -> 7 [] m = <<"a", "g", "o">> -> 8
      [] m = <<"s", "e", "t">> -> 9 [] m = <<"o", "u", "t">> -> 10
      [] m = <<"n", "o", "v">> -> 11 [] m = <<"d", "e", "z">> -> 12

MonthAbbrevs ==
    {<<"j", "a", "n">>, <<"f", "e", "v">>, <<"m", "a", "r">>,
     <<"a", "b", "r">>, <<"m", "a", "i">>, <<"j", "u", "n">>,
     <<"j", "u", "l">>, <<"a", "g", "o">>, <<"s", "e", "t">>,
     <<"o", "u", "t">>, <<"n", "o", "v">>, <<"d", "e", "z">>}

\* re.match(r"^(jan|...|dez)[/\- ](\d{4})$", v)
IsMonthSepYear(v) ==
    /\ Len(v) = 8
    /\ SubSeq(v, 1, 3) \in MonthAbbrevs
    /\ v[4] \in {"/", "-", " "}
    /\ IsDigit(SubSeq(v, 5, 8))

\* body of the second loop for one key
ParseLabeled(raw) ==
    LET v == Lower(Strip(raw))
    IN  IF IsMonthSepYear(v)
        THEN <<ToInt(SubSeq(v, 5, 8)), MesPt(SubSeq(v, 1, 3))>>
        ELSE NoPeriod

CodedKeys == <<"D3C", "D4C", "D5C">>
LabeledKeys == <<"D3N", "D4N", "D5N">>

\* the 6-digit rule on every key first, the separator rule on every key after
RECURSIVE ScanRule(_, _, _)
ScanRule(item, keys, sixDigit) ==
    IF keys = <<>> THEN NoPeriod
    ELSE LET v == StrOrEmpty(item[Head(keys)])
             hit == IF sixDigit THEN IsYYYYMM(v) ELSE IsYearSepMonth(v)
         IN  IF hit THEN ParseCoded(v) ELSE ScanRule(item, Tail(keys), sixDigit)

ScanCodedRuleMajor(item, keys) ==
    IF ScanRule(item, keys, TRUE) # NoPeriod THEN ScanRule(item, keys, TRUE)
    ELSE ScanRule(item, keys, FALSE)

\* for k in ("D3C","D4C","D5C"): both tests on key k before the next key
RECURSIVE ScanCoded(_, _)
ScanCoded(item, keys) ==
    IF keys = <<>> THEN NoPeriod
    ELSE LET r == ParseCoded(StrOrEmpty(item[Head(keys)]))
         IN  IF r # NoPeriod THEN r ELSE ScanCoded(item, Tail(keys))

\* for k in ("D3N","D4N","D5N")
RECURSIVE ScanLabeled(_, _)
ScanLabeled(item, keys) ==
    IF keys = <<>> THEN NoPeriod
    ELSE LET r == ParseLabeled(StrOrEmpty(item[Head(keys)]))
         IN  IF r # NoPeriod THEN r ELSE ScanLabeled(item, Tail(keys))

parse_period(item) ==
    LET coded == ScanCoded(item, CodedKeys)
    IN  IF coded # NoPeriod THEN coded ELSE ScanLabeled(item, LabeledKeys)

(* ---------------------------------------------------------------------- *)
(* Value conversion (lines 97-103)                                         *)
(* ---------------------------------------------------------------------- *)
\* a float is mant / 10^scale, negated when neg; valor None is null = TRUE
NullValor == [null |-> TRUE, neg |-> FALSE, mant |-> 0, scale |-> 0]

\* the same float whatever the number of trailing zeros written
RECURSIVE Reduce(_, _)
Reduce(m, k) == IF k > 0 /\ m % 10 = 0 THEN Reduce(m \div 10, k - 1) ELSE <<m, k>>

Float(neg, m, k) ==
    [null |-> FALSE, neg |-> neg /\ m # 0,
     mant |-> Reduce(m, k)[1], scale |-> Reduce(m, k)[2]]

\* float(str): surrounding whitespace ignored, optional sign, decimal digits
\* with at most one point and at least one digit. The exponent, underscore,
\* inf and nan forms need characters ("e", "_", "i", "n") that no modelled V has.
FloatOfStr(raw) ==
    LET s == Strip(raw)
        signed == Len(s) > 0 /\ s[1] \in {"-", "+"}
        body == IF signed THEN Tail(s) ELSE s
        dots == {i \in 1..Len(body) : body[i] = "."}
        digs == SelectSeq(body, LAMBDA c : c \in Digits)
        wellFormed ==
            /\ \A i \in 1..Len(body) : body[i] \in Digits \cup {"."}
            /\ Cardinality(dots) <= 1
            /\ Len(digs) > 0
        point == CHOOSE i \in dots : TRUE
    IN  IF ~wellFormed THEN NullValor
        ELSE Float(signed /\ s[1] = "-", ToInt(digs),
                   IF dots = {} THEN 0 ELSE Len(body) - point)

\* float(str) of the value as it is, without the decimal-comma substitution
ValorNoReplace(v) ==
    CASE v.t = "none" -> NullValor
      [] v.t = "num" -> Float(FALSE, v.n, 0)
      [] v.t = "str" -> FloatOfStr(v.s)

\* v = item.get("V"); replace "," by "." in a str; float(v), None on exception
Valor(v) ==
    CASE v.t = "none" -> NullValor
      [] v.t = "num" -> Float(FALSE, v.n, 0)
      [] v.t = "str" -> FloatOfStr(ReplaceComma(v.s))

(* ---------------------------------------------------------------------- *)
(* Records and tables                                                      *)
(* ---------------------------------------------------------------------- *)
\* x or default
OrDefault(v, default) == IF Truthy(v) THEN v ELSE default

\* the dict appended to regs (lines 105-113)
MakeReg(item) ==
    [ano |-> parse_period(item)[1],
     mes |-> parse_period(item)[2],
     localidade_codigo |-> OrDefault(item.D1C, Str(<<"1">>)),
     localidade |-> OrDefault(item.D1N, Str(<<"B", "r", "a", "s", "i", "l">>)),
     indice |-> "IPCA",
     unidade |-> "%",
     valor |-> Valor(item.V)]

\* the column list of lines 91 and 121
CanonicalColumns ==
    <<"ano", "mes", "localidade_codigo", "localidade", "indice", "unidade",
      "valor">>

\* a DataFrame: its column labels in order and its rows in order; kind "flat"
\* is the result of pd.json_normalize, whose columns depend on the payload
DataFrame(kind, columns, rows) == [kind |-> kind, columns |-> columns, rows |-> rows]
EmptyFrame == DataFrame("empty", <<>>, <<>>)
FlatFrame == DataFrame("flat", <<>>, <<>>)
NoFrame == DataFrame("unset", <<>>, <<>>)

\* df[[...]] with one label left out
ProjectShort(cols, rows) == DataFrame("canonical", SubSeq(cols, 1, Len(cols) - 1), rows)

\* pd.DataFrame(columns=[...]) and df[[...]]: the listed columns, in that order
Project(cols, rows) == DataFrame("canonical", cols, rows)

\* dropna that keeps every row
DropNaNothing(rows) == rows

\* df.dropna(subset=["ano","mes"])
DropNa(rows) == SelectSeq(rows, LAMBDA r : r.ano # Null /\ r.mes # Null)

\* (ano, mes) of a against (ano, mes) of b
KeyLE(a, b) == a.ano < b.ano \/ (a.ano = b.ano /\ a.mes <= b.mes)

\* r put after the rows that do not come after it (the sort is stable)
RECURSIVE Insert(_, _)
Insert(sorted, r) ==
    IF sorted = <<>> THEN <<r>>
    ELSE IF KeyLE(sorted[Len(sorted)], r) THEN Append(sorted, r)
         ELSE Append(Insert(SubSeq(sorted, 1, Len(sorted) - 1), r),
                     sorted[Len(sorted)])

\* a sort on the year alone
RECURSIVE InsertByAno(_, _)
InsertByAno(sorted, r) ==
    IF sorted = <<>> THEN <<r>>
    ELSE IF sorted[Len(sorted)].ano <= r.ano THEN Append(sorted, r)
         ELSE Append(InsertByAno(SubSeq(sorted, 1, Len(sorted) - 1), r),
                     sorted[Len(sorted)])

RECURSIVE SortByAno(_)
SortByAno(rows) ==
    IF rows = <<>> THEN <<>>
    ELSE InsertByAno(SortByAno(SubSeq(rows, 1, Len(rows) - 1)), rows[Len(rows)])

\* df.sort_values(["ano","mes"]).reset_index(drop=True)
RECURSIVE SortValues(_)
SortValues(rows) ==
    IF rows = <<>> THEN <<>>
    ELSE Insert(SortValues(SubSeq(rows, 1, Len(rows) - 1)), rows[Len(rows)])

(* ---------------------------------------------------------------------- *)
(* Inputs: the payloads a fixture file or an endpoint can hold             *)
(* ---------------------------------------------------------------------- *)
s202501 == <<"2", "0", "2", "5", "0", "1">>
s202402 == <<"2", "0", "2", "4", "0", "2">>
s202212 == <<"2", "0", "2", "2", "1", "2">>
s202513 == <<"2", "0", "2", "5", "1", "3">>
s2025d01 == <<"2", "0", "2", "5", "-", "0", "1">>
s2025d00 == <<"2", "0", "2", "5", "-", "0", "0">>
s2024p12 == <<"2", "0", "2", "4", ".", "1", "2">>
s2023s07 == <<"2", "0", "2", "3", "/", "0", "7">>
s20251 == <<"2", "0", "2", "5", "1">>
sJan2025 == <<"j", "a", "n", "/", "2", "0", "2", "5">>
sJANd2025 == <<"J", "A", "N", "-", "2", "0", "2", "5">>
sFev2024 == <<" ", "f", "e", "v", " ", "2", "0", "2", "4", " ">>
sXyz2025 == <<"x", "y", "z", "/", "2", "0", "2", "5">>
sJanNoSep == <<"j", "a", "n", "2", "0", "2", "5">>
sMar2023 == <<"m", "a", "r", "/", "2", "0", "2", "3">>
sDez2022 == <<"d", "e", "z", " ", "2", "0", "2", "2">>
s1c23 == <<"1", ",", "2", "3">>
s5p48 == <<"5", ".", "4", "8">>
sAbc == <<"a", "b", "c">>
s1c2c3 == <<"1", ",", "2", ",", "3">>
sNeg0c50 == <<"-", "0", ",", "5", "0">>

\* values of D3C: absent, YYYYMM, YYYY-MM, YYYY.MM, month 13, month 00, five
\* digits, and YYYYMM as a JSON number
D3CValues ==
    {None, Str(s202501), Str(s2025d01), Str(s2024p12), Str(s202513),
     Str(s2025d00), Str(s20251), Num(202403)}
D4CValues == {None, Str(s202402)}
D3NValues ==
    {Str(sJan2025), Str(sJANd2025), Str(sFev2024), Str(sXyz2025), Str(sJanNoSep)}
VValues ==
    {None, Str(s1c23), Str(s5p48), Str(sAbc), Str(s1c2c3), Str(sNeg0c50),
     Str(<<>>), Num(5)}

\* records whose period comes from the coded keys
CodedItems ==
    {Mapping(c3, c4, None, None, None, None, None, None, Str(s1c23)) :
        c3 \in D3CValues, c4 \in D4CValues}
    \cup {Mapping(Str(s20251), Str(s2023s07), None, None, None, None, None, None, None),
          Mapping(None, None, Str(s202212), None, None, None, None, None, None)}

\* records whose period comes from the labeled keys, or from nowhere
LabeledItems ==
    {Mapping(None, None, None, n3, None, None, None, None, Str(s5p48)) :
        n3 \in D3NValues}
    \cup {Mapping(Str(s20251), None, None, Str(sJan2025), None, None, None, None, None),
          Mapping(None, None, None, None, Str(sMar2023), None, None, None, None),
          Mapping(None, None, None, Str(sXyz2025), None, Str(sDez2022), None, None, None)}

\* records that differ in V and in the location keys
ValueItems ==
    {Mapping(Str(s202501), None, None, None, None, None, None, None, v) :
        v \in VValues}
    \cup {Mapping(Str(s202402), None, None, None, None, None,
                  Str(<<"3", "3">>), Str(<<"R", "i", "o">>), Str(s5p48)),
          Mapping(None, None, None, None, None, None,
                  Str(<<"1">>), Str(<<"B", "r", "a", "s", "i", "l">>), Str(sAbc))}

Items == CodedItems \cup LabeledItems \cup ValueItems

Elements == Items \cup {NotAMapping}

SeqsUpTo(S, n) == UNION {[1..k -> S] : k \in 0..n}

Payloads ==
    {ListPayload(<<>>), DictPayload, ScalarPayload}
    \cup {ListPayload(<<HeaderRec>> \o recs) : recs \in SeqsUpTo(Elements, MaxRecords)}
    \cup {ListPayload(<<NotAMapping>> \o recs) : recs \in SeqsUpTo(Elements, 1)}

(* ---------------------------------------------------------------------- *)
(* Fetch configuration                                                     *)
(* ---------------------------------------------------------------------- *)
\* len(SIDRA_URLS); a URL is its position in the list
NumUrls == 3
\* Retry(total=5): the retries allowed after the first request of a GET
RetryTotal == 5
\* status_forcelist
StatusForcelist == {429, 500, 502, 503, 504}
\* error statuses outside the forcelist, which raise_for_status turns into HTTPError
OtherErrorStatuses == {404, 501}

NoErr == [url |-> 0, cause |-> "none", status |-> 0]
Err(u, cause, status) == [url |-> u, cause |-> cause, status |-> status]
NoResult == [url |-> 0, body |-> 0]

\* the JSON document endpoint u serves (documents of different endpoints differ)
Body(u) == 100 + u

(* ---------------------------------------------------------------------- *)
(* State                                                                   *)
(* ---------------------------------------------------------------------- *)
VARIABLES
    pc,            \* position of main / of fetch_json_with_fallback
    payload,       \* the raw payload handed to normalize_ipca
    regs,          \* the list regs built by normalize_ipca
    df,            \* the DataFrame normalize_ipca returns
    exc,           \* the exception that left normalize_ipca, "" if none
    saved,         \* the table written by save_parquet
    warnings,      \* logging.warning events, in order
    infoLog,       \* URLs of the "Baixando dados" logging.info events, in order
    urlIdx,        \* position in SIDRA_URLS of the URL being fetched
    retriesLeft,   \* what is left of the Retry total of the current session
    requests,      \* HTTP GETs issued so far, per URL
    last_err,      \* last_err of fetch_json_with_fallback
    result,        \* the value fetch_json_with_fallback returned
    raised         \* the exception fetch_json_with_fallback raised

vars ==
    <<pc, payload, regs, df, exc, saved, warnings, infoLog, urlIdx,
      retriesLeft, requests, last_err, result, raised>>

normVars == <<payload, regs, df, exc, saved>>
fetchVars == <<infoLog, urlIdx, retriesLeft, requests, last_err, result, raised>>

(* ---------------------------------------------------------------------- *)
(* main on the fixture path                                                *)
(* ---------------------------------------------------------------------- *)
FetchIdle ==
    /\ infoLog = <<>>
    /\ urlIdx = 0
    /\ retriesLeft = 0
    /\ requests = [u \in 1..NumUrls |-> 0]
    /\ last_err = NoErr
    /\ result = NoResult
    /\ raised = NoErr

NormIdle ==
    /\ payload = NoPayload
    /\ regs = <<>>
    /\ df = NoFrame
    /\ exc = ""
    /\ saved = NoFrame

Init ==
    /\ pc = "start"
    /\ warnings = <<>>
    /\ NormIdle
    /\ FetchIdle

\* payload = load_fixture(FIXTURE_FILE): whatever JSON the file holds
LoadFixture ==
    /\ pc = "start"
    /\ \E p \in Payloads : payload' = p
    /\ pc' = "loaded"
    /\ UNCHANGED <<regs, df, exc, saved, warnings>>
    /\ UNCHANGED fetchVars

\* the list regs of lines 93-113, one dict per element after the header
BuildRegs(elems) == [i \in 1..(Len(elems) - 1) |-> MakeReg(elems[i + 1])]

\* lines 115-121 applied to regs
FrameOfRegs(rs) ==
    LET kept == DropNa(rs)
    IN  Project(CanonicalColumns, IF kept # <<>> THEN SortValues(kept) ELSE kept)

HeaderOnlyWarning == [url |-> 0, cause |-> "header-only", status |-> 0]

\* df = normalize_ipca(payload)
NormalizeIpca ==
    /\ pc = "loaded"
    /\ UNCHANGED <<payload, saved>>
    /\ UNCHANGED fetchVars
    /\ IF payload.kind = "list" /\ payload.elems = <<>>
       THEN \* payload[0] on an empty list (line 88)
            /\ pc' = "crashed"
            /\ exc' = "IndexError"
            /\ UNCHANGED <<regs, df, warnings>>
       ELSE IF payload.kind = "list" /\ payload.elems[1].isdict
       THEN IF Len(payload.elems) <= 1
            THEN /\ pc' = "normalized"
                 /\ warnings' = Append(warnings, HeaderOnlyWarning)
                 /\ df' = Project(CanonicalColumns, <<>>)
                 /\ UNCHANGED <<regs, exc>>
            ELSE IF \E i \in 2..Len(payload.elems) : ~payload.elems[i].isdict
                 THEN \* item.get on something that is not a dict (line 71)
                      /\ pc' = "crashed"
                      /\ exc' = "AttributeError"
                      /\ UNCHANGED <<regs, df, warnings>>
                 ELSE /\ pc' = "normalized"
                      /\ regs' = BuildRegs(payload.elems)
                      /\ df' = FrameOfRegs(BuildRegs(payload.elems))
                      /\ UNCHANGED <<exc, warnings>>
       ELSE \* pd.json_normalize(payload), an empty DataFrame when it raises
            /\ pc' = "normalized"
            /\ df' \in (IF payload.kind = "dict" THEN {FlatFrame}
                        ELSE {FlatFrame, EmptyFrame})
            /\ UNCHANGED <<regs, exc, warnings>>

\* save_parquet(df, Path(args.out))
SaveParquet ==
    /\ pc = "normalized"
    /\ saved' = df
    /\ pc' = "saved"
    /\ UNCHANGED <<payload, regs, df, exc, warnings>>
    /\ UNCHANGED fetchVars

Next == LoadFixture \/ NormalizeIpca \/ SaveParquet

Spec == Init /\ [][Next]_vars

(* ---------------------------------------------------------------------- *)
(* fetch_json_with_fallback                                                *)
(* ---------------------------------------------------------------------- *)
InitFetch ==
    /\ pc = "call"
    /\ warnings = <<>>
    /\ NormIdle
    /\ FetchIdle

\* a session that goes on with what the previous one left
SharedBudget(left) == left

\* _make_session(): every fetch_json builds its own session and Retry object
SessionBudget(left) == RetryTotal

\* the loop skipping a URL
NextUrlSkipping(u) == u + 2

\* for u in SIDRA_URLS: the URL after u
NextUrl(u) == u + 1

\* last_err keeping the first error
KeepFirstErr(prev, e) == IF prev = NoErr THEN e ELSE prev

\* last_err = e (line 48)
RecordErr(prev, e) == e

\* fetch_json(u) starts: new session, the logging.info of line 35
BeginFetch(u) ==
    /\ urlIdx' = u
    /\ retriesLeft' = SessionBudget(retriesLeft)
    /\ infoLog' = Append(infoLog, u)

\* fetch_json_with_fallback() is called: last_err = None, first URL
CallFetchWithFallback ==
    /\ pc = "call"
    /\ pc' = "fetching"
    /\ last_err' = NoErr
    /\ BeginFetch(1)
    /\ UNCHANGED <<requests, result, raised, warnings>>
    /\ UNCHANGED normVars

\* one more GET to the current URL
CountRequest == requests' = [requests EXCEPT ![urlIdx] = @ + 1]

\* fetch_json(u) raised e: the except clause of lines 47-48, then the next
\* URL, or raise last_err after the last one (line 49)
FailEndpoint(e) ==
    /\ last_err' = RecordErr(last_err, e)
    /\ warnings' = Append(warnings, e)
    /\ IF NextUrl(urlIdx) <= NumUrls
       THEN /\ BeginFetch(NextUrl(urlIdx))
            /\ pc' = "fetching"
            /\ UNCHANGED raised
       ELSE /\ pc' = "raised"
            /\ raised' = last_err'
            /\ UNCHANGED <<urlIdx, retriesLeft, infoLog>>

\* a retryable outcome: the Retry object is incremented and the GET repeated
\* after the backoff sleep, unless the total is used up
RetryOrFail(e) ==
    IF retriesLeft > 0
    THEN /\ retriesLeft' = retriesLeft - 1
         /\ UNCHANGED <<pc, urlIdx, infoLog, last_err, warnings, raised>>
    ELSE FailEndpoint(e)

\* the response is 200 with a JSON body: return r.json()
GetOk ==
    /\ pc = "fetching"
    /\ CountRequest
    /\ result' = [url |-> urlIdx, body |-> Body(urlIdx)]
    /\ pc' = "returned"
    /\ UNCHANGED <<urlIdx, retriesLeft, infoLog, last_err, raised, warnings>>
    /\ UNCHANGED normVars

\* the response is 200 and neither r.json() nor json.loads(r.text) parses it
GetBadBody ==
    /\ pc = "fetching"
    /\ CountRequest
    /\ FailEndpoint(Err(urlIdx, "JSONDecodeError", 200))
    /\ UNCHANGED result
    /\ UNCHANGED normVars

\* an error status outside the forcelist: r.raise_for_status() raises
GetOtherErrorStatus ==
    /\ pc = "fetching"
    /\ CountRequest
    /\ \E st \in OtherErrorStatuses : FailEndpoint(Err(urlIdx, "HTTPError", st))
    /\ UNCHANGED result
    /\ UNCHANGED normVars

\* a status of the forcelist: retried; with raise_on_status=False the last
\* response is returned when the total is used up and raise_for_status raises
GetForcelistStatus ==
    /\ pc = "fetching"
    /\ CountRequest
    /\ \E st \in StatusForcelist : RetryOrFail(Err(urlIdx, "HTTPError", st))
    /\ UNCHANGED result
    /\ UNCHANGED normVars

\* connection refused, reset or timed out: retried, then ConnectionError
GetConnectionFailure ==
    /\ pc = "fetching"
    /\ CountRequest
    /\ RetryOrFail(Err(urlIdx, "ConnectionError", 0))
    /\ UNCHANGED result
    /\ UNCHANGED normVars

NextFetch ==
    \/ CallFetchWithFallback
    \/ GetOk
    \/ GetBadBody
    \/ GetOtherErrorStatus
    \/ GetForcelistStatus
    \/ GetConnectionFailure

SpecFetch == InitFetch /\ [][NextFetch]_vars

(* ---------------------------------------------------------------------- *)
(* Properties of fetch_json_with_fallback (checked under SpecFetch)        *)
(* ---------------------------------------------------------------------- *)
Range(s) == {s[i] : i \in DOMAIN s}
Count(x, s) == Cardinality({i \in DOMAIN s : s[i] = x})

\* C1: the URLs are attempted in list order, each at most once, and the call
\* returns the payload of the first URL whose fetch succeeds; no URL after the
\* successful one is attempted.
C1_OrderedShortCircuit ==
    /\ Len(infoLog) <= NumUrls
    /\ infoLog = [k \in 1..Len(infoLog) |-> k]
    /\ (result # NoResult => pc = "returned")
    /\ (pc = "returned" =>
          /\ result.url = Len(infoLog)
          /\ result.body = Body(result.url)
          /\ \A u \in 1..(result.url - 1) :
                requests[u] >= 1 /\ \E k \in DOMAIN warnings : warnings[k].url = u
          /\ \A u \in (result.url + 1)..NumUrls : requests[u] = 0)

\* the second URL succeeds after the first failed; the third is never tried
C1_Witness ==
    /\ pc = "returned"
    /\ result.url = 2
    /\ infoLog = <<1, 2>>
    /\ requests[3] = 0

\* C2: one warning per failed endpoint and none for a successful one; when
\* every endpoint fails the error raised is the one of the last endpoint.
C2_WarningsAndLastError ==
    /\ \A k \in DOMAIN warnings : warnings[k].url = k
    /\ (pc = "fetching" => Len(warnings) = urlIdx - 1)
    /\ (pc = "returned" => Len(warnings) = result.url - 1)
    /\ (pc = "raised" =>
          /\ Len(warnings) = NumUrls
          /\ raised.url = NumUrls
          /\ raised = warnings[NumUrls])
    /\ (raised # NoErr => pc = "raised")

\* all three endpoints fail, the first and the last for different reasons
C2_Witness ==
    /\ pc = "raised"
    /\ Len(warnings) = 3
    /\ warnings[1].cause = "JSONDecodeError"
    /\ raised.cause = "ConnectionError"

\* C9 as stated: one fetch_json call issues at most 5 GETs to its URL.
C9_AtMostFiveRequests == \A u \in 1..NumUrls : requests[u] <= 5

Retryable(e) ==
    \/ e.cause = "ConnectionError"
    \/ e.cause = "HTTPError" /\ e.status \in {429, 500, 502, 503, 504}

\* C9, amended: one fetch_json call issues at most 6 GETs to its URL (the
\* first request and 5 retries), exactly 6 before failing when every response
\* is retryable, and every call starts with the full retry budget whatever
\* happened at the earlier endpoints.
C9_AtMostSixRequests ==
    /\ \A u \in 1..NumUrls : requests[u] <= 6
    /\ \A k \in DOMAIN warnings :
          Retryable(warnings[k]) => requests[warnings[k].url] = 6
    /\ (pc = "fetching" => retriesLeft + requests[urlIdx] = 5)

\* the first two endpoints used up their retries; the third starts afresh
C9_Witness ==
    /\ pc = "fetching"
    /\ urlIdx = 3
    /\ requests = <<6, 6, 0>>
    /\ retriesLeft = 5

(* ---------------------------------------------------------------------- *)
(* Properties of normalize_ipca (checked under Spec)                       *)
(* ---------------------------------------------------------------------- *)
Returned == pc \in {"normalized", "saved"}

\* a list whose first element is a mapping
Tabular == payload.kind = "list" /\ payload.elems # <<>> /\ payload.elems[1].isdict

\* a tabular payload with at least one data record
HasData == Tabular /\ Len(payload.elems) > 1

\* the i-th data record
Data(i) == payload.elems[i + 1]

\* C3: normalize_ipca never raises, whatever the payload.
C3_NeverRaises == pc # "crashed" /\ exc = ""

\* C4: the output has exactly one row per data record whose period resolves,
\* none for a record whose period is (None, None), and ano and mes are
\* non-null integers in every row.
C4_RowsAreResolvedRecords ==
    (Returned /\ HasData) =>
        LET resolved == {i \in DOMAIN regs : parse_period(Data(i)) # <<Null, Null>>}
        IN  /\ Len(regs) = Len(payload.elems) - 1
            /\ Len(df.rows) = Cardinality(resolved)
            /\ \A i \in resolved :
                  Count(regs[i], df.rows) =
                      Cardinality({j \in resolved : regs[j] = regs[i]})
            /\ \A r \in Range(df.rows) :
                  r.ano # Null /\ r.mes # Null /\ r.ano \in Nat /\ r.mes \in Nat

\* two data records, one with a period and one without
C4_Witness ==
    /\ Returned /\ HasData
    /\ Len(regs) = 2
    /\ regs[1].ano = Null
    /\ regs[2].ano # Null
    /\ Len(df.rows) = 1

\* C5: mes is in 1..12 in every output row.
C5_MonthInRange ==
    (Returned /\ Tabular) => \A r \in Range(df.rows) : r.mes \in 1..12

\* C6: the output rows are in non-decreasing order of (ano, mes).
C6_SortedByAnoMes ==
    (Returned /\ Tabular) =>
        \A i, j \in DOMAIN df.rows :
            i < j =>
                \/ df.rows[i].ano < df.rows[j].ano
                \/ /\ df.rows[i].ano = df.rows[j].ano
                   /\ df.rows[i].mes <= df.rows[j].mes

\* two records of the same year given in descending month order
C6_Witness ==
    /\ Returned /\ HasData
    /\ Len(regs) = 2
    /\ regs[1].ano = 2025 /\ regs[2].ano = 2025
    /\ regs[1].mes > regs[2].mes
    /\ Len(df.rows) = 2

\* what float() gives for the V values of the modelled records, by hand
ExpectedValor(v) ==
    CASE v = Str(s1c23) -> [null |-> FALSE, neg |-> FALSE, mant |-> 123, scale |-> 2]
      [] v = Str(s5p48) -> [null |-> FALSE, neg |-> FALSE, mant |-> 548, scale |-> 2]
      [] v = Str(sNeg0c50) -> [null |-> FALSE, neg |-> TRUE, mant |-> 5, scale |-> 1]
      [] v = Num(5) -> [null |-> FALSE, neg |-> FALSE, mant |-> 5, scale |-> 0]
      [] OTHER -> [null |-> TRUE, neg |-> FALSE, mant |-> 0, scale |-> 0]

\* C7: a record with a resolvable period is kept whatever its V is; "," is
\* read as the decimal point ("1,23" gives 1.23) and a V that is absent or not
\* a number gives a null valor in a row that is still in the output.
C7_ValueNeverDropsRow ==
    (Returned /\ HasData) =>
        \A i \in DOMAIN regs :
            regs[i].ano # Null =>
                /\ regs[i].valor = ExpectedValor(Data(i).V)
                /\ \E k \in DOMAIN df.rows :
                      /\ df.rows[k].ano = regs[i].ano
                      /\ df.rows[k].mes = regs[i].mes
                      /\ df.rows[k].valor = ExpectedValor(Data(i).V)
                /\ Len(df.rows) = Cardinality({j \in DOMAIN regs : regs[j].ano # Null})

\* a row with a null valor next to the row of "1,23"
C7_Witness ==
    /\ Returned /\ HasData
    /\ Len(df.rows) = 2
    /\ Data(1).V = Str(sAbc)
    /\ Data(2).V = Str(s1c23)
    /\ \E k \in DOMAIN df.rows : df.rows[k].valor.null
    /\ \E k \in DOMAIN df.rows :
          df.rows[k].valor = [null |-> FALSE, neg |-> FALSE, mant |-> 123, scale |-> 2]

\* the value of coded key k of a record, as the parser reads it
CodedValue(item, k) == StrOrEmpty(item[CodedKeys[k]])
LabeledValue(item, k) == Lower(Strip(StrOrEmpty(item[LabeledKeys[k]])))
Least(S) == CHOOSE k \in S : \A m \in S : k <= m
\* year and month of a YYYYMM or YYYY-sep-MM string: first four, last two
YearMonth(v) == <<ToInt(SubSeq(v, 1, 4)), ToInt(SubSeq(v, Len(v) - 1, Len(v)))>>

\* C8 as stated: the 6-digit rule is tried on all three coded keys before the
\* separator rule, so a 6-digit value under any coded key decides the period.
C8_SixDigitRuleFirst ==
    (Returned /\ HasData) =>
        \A i \in DOMAIN regs :
            LET six == {k \in 1..3 : IsYYYYMM(CodedValue(Data(i), k))}
            IN  six # {} =>
                    <<regs[i].ano, regs[i].mes>> =
                        YearMonth(CodedValue(Data(i), Least(six)))

\* C8, amended: the coded keys are scanned in the order D3C, D4C, D5C and
\* both the 6-digit rule and the separator rule are tried on a key before the
\* next key; the labeled keys D3N, D4N, D5N are tried only when no coded key
\* matches. D3C = "2025-01" with D4C = "202402" gives (2025, 1).
C8_KeyPriorityFirst ==
    (Returned /\ HasData) =>
        \A i \in DOMAIN regs :
            LET coded == {k \in 1..3 : \/ IsYYYYMM(CodedValue(Data(i), k))
                                       \/ IsYearSepMonth(CodedValue(Data(i), k))}
                labeled == {k \in 1..3 : IsMonthSepYear(LabeledValue(Data(i), k))}
                period == <<regs[i].ano, regs[i].mes>>
            IN  /\ coded # {} => period = YearMonth(CodedValue(Data(i), Least(coded)))
                /\ (coded = {} /\ labeled # {}) =>
                      /\ regs[i].ano =
                            ToInt(SubSeq(LabeledValue(Data(i), Least(labeled)), 5, 8))
                      /\ regs[i].mes =
                            MesPt(SubSeq(LabeledValue(Data(i), Least(labeled)), 1, 3))
                /\ (coded = {} /\ labeled = {}) => period = <<Null, Null>>
                /\ (Data(i).D3C = Str(s2025d01) /\ Data(i).D4C = Str(s202402)) =>
                      period = <<2025, 1>>

\* a record with D3C = "2025-01" and D4C = "202402" has been parsed
C8_Witness ==
    /\ Returned /\ HasData
    /\ Data(1).D3C = Str(s2025d01)
    /\ Data(1).D4C = Str(s202402)
    /\ regs[1].ano = 2025
    /\ regs[1].mes = 1

\* C10: a tabular payload gives exactly the 7 columns ano, mes,
\* localidade_codigo, localidade, indice, unidade, valor in that order; a
\* header-only payload gives zero rows and one warning, and a payload whose
\* records all have unresolved periods gives zero rows with the same columns.
C10_CanonicalColumns ==
    (Returned /\ Tabular) =>
        /\ df.columns = <<"ano", "mes", "localidade_codigo", "localidade",
                          "indice", "unidade", "valor">>
        /\ Len(payload.elems) = 1 => (df.rows = <<>> /\ Len(warnings) = 1)
        /\ (HasData /\ \A i \in DOMAIN regs : regs[i].ano = Null) => df.rows = <<>>
        /\ saved \in {NoFrame, df}

\* two data records, neither with a period: no rows, the 7 columns
C10_Witness ==
    /\ pc = "saved"
    /\ HasData
    /\ Len(regs) = 2
    /\ \A i \in DOMAIN regs : regs[i].ano = Null
    /\ df.rows = <<>>
    /\ Len(saved.columns) = 7

====
